---- MODULE Spec2Model ----
(***************************************************************************)
(* Word-timing alignment of RedditTTSSubtitles                             *)
(* (src/reddit_post_video_creator_github.py): analyze_speech_timing,       *)
(* get_whisper_word_timings, create_hybrid_timings, estimate_word_duration *)
(* and estimate_word_timings.                                              *)
(*                                                                         *)
(* Strings are sequences of one-character strings.  Python floats are      *)
(* modelled as exact rationals <<numerator, denominator>> in lowest terms  *)
(* (seconds for times); float rounding is not modelled.                    *)
(***************************************************************************)
EXTENDS Integers, Sequences, FiniteSets, TLC

\* ------------------------------------------------------------------ bounds
\* Longest authoritative text, in words.
MaxWords == 3
\* Most words the ASR oracle returns for one audio file.
MaxAsr == 2

\* ------------------------------------------------------------- rationals
RECURSIVE GCD(_, _)
GCD(a, b) ==
    IF b = 0 THEN a ELSE GCD(b, a % b)

Abs(x) ==
    IF x < 0 THEN -x ELSE x

\* The rational n/d (d # 0) in lowest terms with a positive denominator.
Rat(n, d) ==
    LET g == GCD(Abs(n), Abs(d))
        s == IF d < 0 THEN -1 ELSE 1
    IN  <<(s * n) \div g, (s * d) \div g>>

LCM(a, b) ==
    (a \div GCD(a, b)) * b

RAdd(x, y) ==
    LET l == LCM(x[2], y[2])
    IN  Rat(x[1] * (l \div x[2]) + y[1] * (l \div y[2]), l)

RSub(x, y) ==
    LET l == LCM(x[2], y[2])
    IN  Rat(x[1] * (l \div x[2]) - y[1] * (l \div y[2]), l)

RMul(x, y) ==
    LET a == Rat(x[1], y[2])
        b == Rat(y[1], x[2])
    IN  Rat(a[1] * b[1], a[2] * b[2])

RDiv(x, y) ==
    RMul(x, Rat(y[2], y[1]))

RLt(x, y) ==
    LET l == LCM(x[2], y[2])
    IN  x[1] * (l \div x[2]) < y[1] * (l \div y[2])

RLe(x, y) ==
    ~RLt(y, x)

RGt(x, y) ==
    RLt(y, x)

Zero == Rat(0, 1)

\* len(...) as a float operand.
FromInt(n) ==
    Rat(n, 1)

\* --------------------------------------------------------------- strings
Uppers ==
    <<"A", "B", "C", "D", "E", "F", "G", "H", "I", "J", "K", "L", "M",
      "N", "O", "P", "Q", "R", "S", "T", "U", "V", "W", "X", "Y", "Z">>

Lowers ==
    <<"a", "b", "c", "d", "e", "f", "g", "h", "i", "j", "k", "l", "m",
      "n", "o", "p", "q", "r", "s", "t", "u", "v", "w", "x", "y", "z">>

\* str.lower()
LowerChar(c) ==
    IF \E k \in 1..26 : Uppers[k] = c
    THEN Lowers[CHOOSE k \in 1..26 : Uppers[k] = c]
    ELSE c

Lower(s) ==
    [k \in 1..Len(s) |-> LowerChar(s[k])]

\* The characters str.strip() and str.split() treat as whitespace.
Whitespace == {" ", "\t", "\n"}

\* The characters create_hybrid_timings strips from both cleaned words.
StripChars == {".", ",", "!", "?", "'", "\""}

\* str.strip(chars): drop leading and trailing characters of the set.
Strip(s, chars) ==
    LET keep == {k \in 1..Len(s) : s[k] \notin chars}
    IN  IF keep = {} THEN <<>>
        ELSE LET lo == CHOOSE k \in keep : \A m \in keep : k <= m
                 hi == CHOOSE k \in keep : \A m \in keep : k >= m
             IN  SubSeq(s, lo, hi)

\* Python's "sub in s" on strings (the empty string is in every string).
Contains(s, sub) ==
    \E k \in 0..(Len(s) - Len(sub)) :
        \A m \in 1..Len(sub) : s[k + m] = sub[m]

\* str.endswith(tuple of one-character suffixes)
EndsWith(s, chars) ==
    Len(s) > 0 /\ s[Len(s)] \in chars

\* str.split(): maximal runs of non-whitespace characters, in order.
RECURSIVE SplitFrom(_, _, _)
SplitFrom(s, k, cur) ==
    IF k > Len(s)
    THEN IF cur = <<>> THEN <<>> ELSE <<cur>>
    ELSE IF s[k] \in Whitespace
         THEN (IF cur = <<>> THEN <<>> ELSE <<cur>>) \o SplitFrom(s, k + 1, <<>>)
         ELSE SplitFrom(s, k + 1, Append(cur, s[k]))

Split(s) ==
    SplitFrom(s, 1, <<>>)

\* ------------------------------------------------------- optional values
\* Python's None, and a value that is not None.
None == [none |-> TRUE]

Some(v) ==
    [none |-> FALSE, value |-> v]

\* ------------------------------------------------- estimate_word_duration
vowels == {"a", "e", "i", "o", "u", "A", "E", "I", "O", "U"}

\* Faulty variant of estimate_word_duration: the surcharge is a flat 0.05
\* instead of 0.05 per vowel beyond the second.
estimate_word_duration_flat_surcharge(word) ==
    LET base_duration == Rat(3, 10)
        length_factor == RMul(FromInt(Len(word)), Rat(2, 100))
        syllables     == Cardinality({k \in 1..Len(word) : word[k] \in vowels})
        complexity    == IF syllables > 2 THEN Rat(5, 100) ELSE Zero
    IN  RAdd(RAdd(base_duration, length_factor), complexity)

\* 0.3 + len(word) * 0.02, plus 0.05 for every vowel beyond the second.
estimate_word_duration(word) ==
    LET base_duration == Rat(3, 10)
        length_factor == RMul(FromInt(Len(word)), Rat(2, 100))
        syllables     == Cardinality({k \in 1..Len(word) : word[k] \in vowels})
        complexity    == IF syllables > 2
                         THEN RMul(FromInt(syllables - 2), Rat(5, 100))
                         ELSE Zero
    IN  RAdd(RAdd(base_duration, length_factor), complexity)

\* ----------------------------------------------- get_whisper_word_timings
\* Faulty variant of WordTimingOf: the word keeps its surrounding whitespace.
WordTimingOf_keeps_whitespace(word_info) ==
    [word       |-> word_info.word,
     start      |-> word_info.start,
     end        |-> word_info.end,
     duration   |-> RSub(word_info.end, word_info.start),
     confidence |-> IF "probability" \in DOMAIN word_info
                    THEN word_info.probability
                    ELSE FromInt(1)]

\* One record per word_info of a segment; a segment without a 'words' key
\* contributes nothing (segment.get('words', [])).
WordTimingOf(word_info) ==
    [word       |-> Strip(word_info.word, Whitespace),
     start      |-> word_info.start,
     end        |-> word_info.end,
     duration   |-> RSub(word_info.end, word_info.start),
     confidence |-> IF "probability" \in DOMAIN word_info
                    THEN word_info.probability
                    ELSE FromInt(1)]

SegmentWords(segment) ==
    IF "words" \in DOMAIN segment THEN segment.words ELSE <<>>

RECURSIVE FlattenSegments(_)
FlattenSegments(segments) ==
    IF segments = <<>> THEN <<>>
    ELSE LET ws == SegmentWords(Head(segments))
         IN  [k \in 1..Len(ws) |-> WordTimingOf(ws[k])]
             \o FlattenSegments(Tail(segments))

\* Faulty variant of Insufficient: the threshold is 0.5.
Insufficient_half(word_timings, original_words) ==
    RLt(FromInt(Len(word_timings)),
        RMul(FromInt(Len(original_words)), Rat(5, 10)))

\* The quality check: len(word_timings) < len(original_words) * 0.7.
Insufficient(word_timings, original_words) ==
    RLt(FromInt(Len(word_timings)),
        RMul(FromInt(Len(original_words)), Rat(7, 10)))

\* -------------------------------------------------- create_hybrid_timings
\* Number of Whisper entries searched for one original word.
SearchWindow == 5

\* Faulty variant of WordsMatch: containment counts whatever the length of
\* the contained word.
WordsMatch_no_length_guard(whisper_raw, original_word) ==
    LET whisper_word   == Strip(Lower(whisper_raw), StripChars)
        original_clean == Strip(Lower(original_word), StripChars)
    IN  \/ whisper_word = original_clean
        \/ Contains(whisper_word, original_clean)
        \/ Contains(original_clean, whisper_word)

\* The match test of the sliding window, on the raw Whisper word and the
\* original word.
WordsMatch(whisper_raw, original_word) ==
    LET whisper_word   == Strip(Lower(whisper_raw), StripChars)
        original_clean == Strip(Lower(original_word), StripChars)
    IN  \/ whisper_word = original_clean
        \/ (Len(original_clean) > 2 /\ Contains(whisper_word, original_clean))
        \/ (Len(whisper_word) > 2 /\ Contains(original_clean, whisper_word))

Min(a, b) ==
    IF a < b THEN a ELSE b

\* Faulty variant of Window: the inner loop runs to the end of the list.
Window_to_end(whisper_timings, whisper_idx) ==
    (whisper_idx + 1)..Len(whisper_timings)

\* Whisper indices the inner loop visits: range(whisper_idx,
\* min(whisper_idx + 5, len(whisper_timings))), as 1-based positions.
\* whisper_idx counts consumed entries, so position whisper_idx + 1 is the
\* first unconsumed one.
Window(whisper_timings, whisper_idx) ==
    (whisper_idx + 1)..Min(whisper_idx + SearchWindow, Len(whisper_timings))

\* The position the inner loop breaks at (lowest matching one), 0 if the
\* loop runs out without a match.
FirstMatch(whisper_timings, whisper_idx, original_word) ==
    LET hits == {j \in Window(whisper_timings, whisper_idx) :
                    WordsMatch(whisper_timings[j].word, original_word)}
    IN  IF hits = {} THEN 0
        ELSE CHOOSE j \in hits : \A m \in hits : j <= m

\* Faulty variant of MatchedTiming: a matched record gets confidence 1.0.
MatchedTiming_confidence_one(entry, original_word) ==
    [entry EXCEPT !.word = original_word, !.confidence = FromInt(1)]

\* Faulty variant of MatchedTiming: the copy keeps the Whisper spelling.
MatchedTiming_keeps_asr_word(entry, original_word) ==
    entry

\* timing = whisper_timings[j].copy(); timing['word'] = original_word
MatchedTiming(entry, original_word) ==
    [entry EXCEPT !.word = original_word]

\* The record appended when no Whisper entry matched.
EstimatedTiming(hybrid_timings, original_word) ==
    LET word_duration == estimate_word_duration(original_word)
        pause         == IF EndsWith(original_word, {".", "!", "?"})
                         THEN Rat(15, 100) ELSE Rat(5, 100)
        start_time    == IF hybrid_timings # <<>>
                         THEN RAdd(hybrid_timings[Len(hybrid_timings)].end, pause)
                         ELSE Rat(1, 10)
    IN  [word       |-> original_word,
         start      |-> start_time,
         end        |-> RAdd(start_time, word_duration),
         duration   |-> word_duration,
         confidence |-> Rat(4, 10)]

\* Faulty variant of CapHybrid: the cap also recomputes the duration.
CapHybrid_recomputes_duration(hybrid_timings, total_duration) ==
    LET n == Len(hybrid_timings)
    IN  IF n > 0 /\ RGt(hybrid_timings[n].end, RAdd(total_duration, Rat(1, 10)))
        THEN [hybrid_timings EXCEPT
                 ![n].end = total_duration,
                 ![n].duration = RSub(total_duration, hybrid_timings[n].start)]
        ELSE hybrid_timings

\* Faulty variant of CapHybrid: the buffer is 1.0 s instead of 0.1 s.
CapHybrid_wide_buffer(hybrid_timings, total_duration) ==
    LET n == Len(hybrid_timings)
    IN  IF n > 0 /\ RGt(hybrid_timings[n].end, RAdd(total_duration, Rat(1, 1)))
        THEN [hybrid_timings EXCEPT ![n].end = total_duration]
        ELSE hybrid_timings

\* The cap on the last record's end, applied after the loop.
CapHybrid(hybrid_timings, total_duration) ==
    LET n == Len(hybrid_timings)
    IN  IF n > 0 /\ RGt(hybrid_timings[n].end, RAdd(total_duration, Rat(1, 10)))
        THEN [hybrid_timings EXCEPT ![n].end = total_duration]
        ELSE hybrid_timings

\* --------------------------------------------------- estimate_word_timings
\* Faulty variant of ScaledDuration: nothing is reserved for the pauses.
ScaledDuration_no_reserve(word_duration, total_estimated_duration, audio_duration) ==
    IF RGt(total_estimated_duration, Zero)
    THEN RMul(RDiv(word_duration, total_estimated_duration), audio_duration)
    ELSE Rat(3, 10)

\* The word's share of 90% of the audio, or 0.3 when nothing was estimated.
ScaledDuration(word_duration, total_estimated_duration, audio_duration) ==
    IF RGt(total_estimated_duration, Zero)
    THEN RMul(RMul(RDiv(word_duration, total_estimated_duration), audio_duration),
              Rat(9, 10))
    ELSE Rat(3, 10)

\* Faulty variant of PauseAfter: the pauses of create_hybrid_timings.
PauseAfter_hybrid_values(word, i, n) ==
    IF i = n THEN Rat(1, 10)
    ELSE IF EndsWith(word, {".", "!", "?"}) THEN Rat(15, 100)
    ELSE Rat(5, 100)

\* The pause after word number i (1-based) of n.
PauseAfter(word, i, n) ==
    IF i = n THEN Rat(1, 10)
    ELSE IF EndsWith(word, {",", ";"}) THEN Rat(2, 10)
    ELSE IF EndsWith(word, {".", "!", "?"}) THEN Rat(4, 10)
    ELSE Rat(5, 100)

\* Faulty variant of SumDurations: one-character words count for nothing.
RECURSIVE SumDurations_ignores_short_words(_)
SumDurations_ignores_short_words(ws) ==
    IF ws = <<>> THEN Zero
    ELSE RAdd(IF Len(Head(ws)) <= 1 THEN Zero
              ELSE estimate_word_duration(Head(ws)),
              SumDurations_ignores_short_words(Tail(ws)))

\* sum(self.estimate_word_duration(word) for word in words)
RECURSIVE SumDurations(_)
SumDurations(ws) ==
    IF ws = <<>> THEN Zero
    ELSE RAdd(estimate_word_duration(Head(ws)), SumDurations(Tail(ws)))

\* Faulty variant of CapEstimate: an overshooting last record is dropped.
CapEstimate_drops_overshoot(timings_, audio_duration_) ==
    LET n == Len(timings_)
    IN  IF n > 0 /\ RGt(timings_[n].end, audio_duration_)
        THEN SubSeq(timings_, 1, n - 1)
        ELSE timings_

\* Faulty variant of CapEstimate: capped only beyond a 0.1 s buffer, as in
\* create_hybrid_timings.
CapEstimate_with_buffer(timings_, audio_duration_) ==
    LET n == Len(timings_)
    IN  IF n > 0 /\ RGt(timings_[n].end, RAdd(audio_duration_, Rat(1, 10)))
        THEN [timings_ EXCEPT ![n].end = audio_duration_]
        ELSE timings_

\* The cap on the last record's end, applied after the loop.
CapEstimate(timings_, audio_duration_) ==
    LET n == Len(timings_)
    IN  IF n > 0 /\ RGt(timings_[n].end, audio_duration_)
        THEN [timings_ EXCEPT ![n].end = audio_duration_]
        ELSE timings_

\* ------------------------------------------------------------------ inputs
\* Words of the narration (the authoritative text).
Vocabulary ==
    {<<"H", "i", ".">>, <<"a">>, <<"s", "o", "m", "e", "o", "n", "e", ",">>}

\* All sequences over S of length at most n.
SeqsUpTo(S, n) ==
    UNION {[1..m -> S] : m \in 0..n}

\* " ".join(ws)
RECURSIVE Join(_)
Join(ws) ==
    IF ws = <<>> THEN <<>>
    ELSE IF Len(ws) = 1 THEN Head(ws)
    ELSE Head(ws) \o <<" ">> \o Join(Tail(ws))

\* Narration texts as create_subtitle_video passes them: clean_text has
\* collapsed whitespace runs to single spaces and stripped the ends.
Texts ==
    {Join(ws) : ws \in SeqsUpTo(Vocabulary, MaxWords)}

\* Audio durations in seconds (AudioFileClip(audio_path).duration).
AudioDurations ==
    {Rat(2, 5), Rat(1, 1), Rat(2, 1)}

\* Words the ASR oracle may report: raw text (Whisper prefixes a space),
\* spoken length, and the optional probability.
AsrWords ==
    {[word |-> <<" ", "h", "i">>, length |-> Rat(3, 10)],
     [word |-> <<"o", "n", "e">>, length |-> Rat(4, 10), probability |-> Rat(8, 10)],
     [word |-> <<"a">>, length |-> Rat(2, 10)]}

\* Silence the oracle reports between two consecutive words.
AsrGap == Rat(5, 100)

\* word_info records for a list of reported words: ordered, non-overlapping,
\* the first starting at 0.
RECURSIVE Timed(_, _)
Timed(ws, from) ==
    IF ws = <<>> THEN <<>>
    ELSE LET w    == Head(ws)
             stop == RAdd(from, w.length)
             info == IF "probability" \in DOMAIN w
                     THEN [word |-> w.word, start |-> from, end |-> stop,
                           probability |-> w.probability]
                     ELSE [word |-> w.word, start |-> from, end |-> stop]
         IN  <<info>> \o Timed(Tail(ws), RAdd(stop, AsrGap))

\* Results of whisper_model.transcribe: the words in one segment, or cut in
\* two segments around a segment that has no 'words' key.
ResultsFor(infos) ==
    {[segments |-> <<[words |-> infos]>>]}
    \cup {[segments |-> <<[words |-> SubSeq(infos, 1, k)],
                          [text |-> <<>>],
                          [words |-> SubSeq(infos, k + 1, Len(infos))]>>] :
            k \in 0..Len(infos)}

AsrResults ==
    UNION {ResultsFor(Timed(ws, Zero)) : ws \in SeqsUpTo(AsrWords, MaxAsr)}

\* ------------------------------------------------------------------- state
VARIABLES
    whisper_model,             \* self.whisper_model is loaded
    text,                      \* the text argument of analyze_speech_timing
    audio_file,                \* duration of the audio file, None if unreadable
    pc,                        \* position in the code
    log,                       \* the diagnostics printed so far
    word_timings,              \* get_whisper_word_timings: flattened ASR words
    original_words,            \* get_whisper_word_timings: original_text.split()
    total_duration,            \* create_hybrid_timings
    hybrid_timings,            \* create_hybrid_timings
    whisper_idx,               \* create_hybrid_timings: consumed ASR entries
    i,                         \* loop index: words already processed
    whisper_result,            \* analyze_speech_timing
    duration,                  \* analyze_speech_timing
    words,                     \* estimate_word_timings
    timings,                   \* estimate_word_timings
    total_estimated_duration,  \* estimate_word_timings
    current_time,              \* estimate_word_timings
    result,                    \* what analyze_speech_timing returned
    force_estimation,          \* main: args.force_estimation
    previous,                  \* caller: what an earlier call returned
    word_arg,                  \* estimate_word_duration: its argument
    word_estimate,             \* estimate_word_duration: its return value
    temp_dir,                  \* self.temp_dir exists on disk
    success,                   \* create_subtitle_video: its return value
    sentences,                 \* generate_tts_audio: lengths of the sentences
    current_chunk_text,        \* generate_tts_audio
    text_to_synthesize,        \* chunks passed to _synthesize_and_append so far
    transcription              \* get_whisper_word_timings: result of transcribe

inputs == <<whisper_model, text, audio_file, force_estimation>>

whisper_locals == <<word_timings, original_words>>

hybrid_locals == <<total_duration, hybrid_timings, whisper_idx>>

estimate_locals == <<words, timings, total_estimated_duration, current_time>>

\* State of the functions around analyze_speech_timing.
outside ==
    <<word_arg, word_estimate, temp_dir, success, sentences, current_chunk_text,
      text_to_synthesize, transcription>>

vars ==
    <<whisper_model, text, audio_file, pc, log, word_timings, original_words,
      total_duration, hybrid_timings, whisper_idx, i, whisper_result, duration,
      words, timings, total_estimated_duration, current_time, result,
      force_estimation, previous, word_arg, word_estimate, temp_dir, success,
      sentences, current_chunk_text, text_to_synthesize, transcription>>

\* Locals before any function has run.
InitLocals ==
    /\ log = <<>>
    /\ total_duration = Zero
    /\ hybrid_timings = <<>>
    /\ whisper_idx = 0
    /\ i = 0
    /\ whisper_result = None
    /\ duration = Zero
    /\ words = <<>>
    /\ timings = <<>>
    /\ total_estimated_duration = Zero
    /\ current_time = Zero
    /\ result = None
    /\ previous = None

\* The functions around analyze_speech_timing have not run: the generator
\* was constructed (its temporary directory exists) and nothing else.
InitOutside ==
    /\ word_arg = <<>>
    /\ word_estimate = None
    /\ temp_dir = TRUE
    /\ success = None
    /\ sentences = <<>>
    /\ current_chunk_text = <<>>
    /\ text_to_synthesize = <<>>
    /\ transcription = None

\* analyze_speech_timing(audio_path, text) is called; --force-estimation
\* was not given.
Init ==
    /\ whisper_model \in BOOLEAN
    /\ text \in Texts
    /\ audio_file \in {None} \cup {Some(d) : d \in AudioDurations}
    /\ force_estimation = FALSE
    /\ pc = "start"
    /\ word_timings = <<>>
    /\ original_words = <<>>
    /\ InitLocals
    /\ InitOutside

\* AudioFileClip(audio_path).duration, or the except branch's
\* word count * 0.4 when the file cannot be read.
DurationOr(ws) ==
    IF audio_file = None
    THEN RMul(FromInt(Len(ws)), Rat(4, 10))
    ELSE audio_file.value

\* ----------------------------------------------------------------- actions
\* analyze_speech_timing up to the Whisper test.
analyze_speech_timing ==
    /\ pc = "start"
    /\ pc' = IF whisper_model THEN "transcribe" ELSE "fallback"
    /\ log' = Append(log, "Starting speech timing analysis")
    /\ UNCHANGED <<inputs, previous, outside, whisper_locals, hybrid_locals, i, whisper_result,
                   duration, estimate_locals, result>>

\* get_whisper_word_timings when transcribe returns: flatten the segments,
\* then return the words as they are or hand them to create_hybrid_timings.
transcribe_returns ==
    /\ pc = "transcribe"
    /\ \E asr \in AsrResults :
        LET wt == FlattenSegments(asr.segments)
            ow == Split(text)
        IN  /\ word_timings' = wt
            /\ original_words' = ow
            /\ IF Insufficient(wt, ow)
               THEN /\ pc' = "hybrid"
                    /\ log' = log \o <<"Analyzing audio with Whisper AI",
                                       "Whisper missed some words">>
                    /\ UNCHANGED whisper_result
               ELSE /\ pc' = "whisper_returned"
                    /\ log' = Append(log, "Analyzing audio with Whisper AI")
                    /\ whisper_result' = Some(wt)
    /\ UNCHANGED <<inputs, previous, outside, hybrid_locals, i, duration, estimate_locals, result>>

\* Faulty variant of transcribe_raises: the except branch hands an empty
\* word list to create_hybrid_timings instead of returning None.
transcribe_raises_goes_hybrid ==
    /\ pc = "transcribe"
    /\ pc' = "hybrid"
    /\ word_timings' = <<>>
    /\ original_words' = Split(text)
    /\ log' = log \o <<"Analyzing audio with Whisper AI", "Whisper analysis failed">>
    /\ UNCHANGED <<inputs, previous, outside, hybrid_locals, i, whisper_result, duration,
                   estimate_locals, result>>

\* get_whisper_word_timings when transcribe raises: the except branch.
transcribe_raises ==
    /\ pc = "transcribe"
    /\ pc' = "whisper_returned"
    /\ whisper_result' = None
    /\ log' = log \o <<"Analyzing audio with Whisper AI", "Whisper analysis failed">>
    /\ UNCHANGED <<inputs, previous, outside, whisper_locals, hybrid_locals, i, duration,
                   estimate_locals, result>>

\* create_hybrid_timings up to its loop.
hybrid_enter ==
    /\ pc = "hybrid"
    /\ pc' = "hybrid_loop"
    /\ log' = Append(log, "Creating hybrid timing with gap filling")
    /\ total_duration' = DurationOr(original_words)
    /\ hybrid_timings' = <<>>
    /\ whisper_idx' = 0
    /\ i' = 0
    /\ UNCHANGED <<inputs, previous, outside, whisper_locals, whisper_result, duration,
                   estimate_locals, result>>

\* Faulty variant of hybrid_match: the cursor stops at the matched entry
\* instead of after it.
hybrid_match_keeps_entry ==
    /\ pc = "hybrid_loop"
    /\ i < Len(original_words)
    /\ LET original_word == original_words[i + 1]
           j == FirstMatch(word_timings, whisper_idx, original_word)
       IN  /\ j # 0
           /\ hybrid_timings' =
                 Append(hybrid_timings, MatchedTiming(word_timings[j], original_word))
           /\ whisper_idx' = j - 1
    /\ i' = i + 1
    /\ UNCHANGED <<inputs, previous, outside, pc, log, whisper_locals, total_duration,
                   whisper_result, duration, estimate_locals, result>>

\* Faulty variant of hybrid_match: found_match is not set, so the matched
\* word is synthesized as well.
hybrid_match_falls_through ==
    /\ pc = "hybrid_loop"
    /\ i < Len(original_words)
    /\ LET original_word == original_words[i + 1]
           j == FirstMatch(word_timings, whisper_idx, original_word)
           matched == Append(hybrid_timings,
                             MatchedTiming(word_timings[j], original_word))
       IN  /\ j # 0
           /\ hybrid_timings' =
                 Append(matched, EstimatedTiming(matched, original_word))
           /\ whisper_idx' = j
    /\ i' = i + 1
    /\ UNCHANGED <<inputs, previous, outside, pc, log, whisper_locals, total_duration, whisper_result,
                   duration, estimate_locals, result>>

\* One iteration of the loop whose window holds a match.
hybrid_match ==
    /\ pc = "hybrid_loop"
    /\ i < Len(original_words)
    /\ LET original_word == original_words[i + 1]
           j == FirstMatch(word_timings, whisper_idx, original_word)
       IN  /\ j # 0
           /\ hybrid_timings' =
                 Append(hybrid_timings, MatchedTiming(word_timings[j], original_word))
           /\ whisper_idx' = j
    /\ i' = i + 1
    /\ UNCHANGED <<inputs, previous, outside, pc, log, whisper_locals, total_duration, whisper_result,
                   duration, estimate_locals, result>>

\* Faulty variant of hybrid_estimate: an unmatched word consumes one Whisper
\* entry.
hybrid_estimate_advances_cursor ==
    /\ pc = "hybrid_loop"
    /\ i < Len(original_words)
    /\ LET original_word == original_words[i + 1]
       IN  /\ FirstMatch(word_timings, whisper_idx, original_word) = 0
           /\ hybrid_timings' =
                 Append(hybrid_timings, EstimatedTiming(hybrid_timings, original_word))
    /\ whisper_idx' = Min(whisper_idx + 1, Len(word_timings))
    /\ i' = i + 1
    /\ UNCHANGED <<inputs, previous, outside, pc, log, whisper_locals, total_duration,
                   whisper_result, duration, estimate_locals, result>>

\* One iteration of the loop whose window holds no match.
hybrid_estimate ==
    /\ pc = "hybrid_loop"
    /\ i < Len(original_words)
    /\ LET original_word == original_words[i + 1]
       IN  /\ FirstMatch(word_timings, whisper_idx, original_word) = 0
           /\ hybrid_timings' =
                 Append(hybrid_timings, EstimatedTiming(hybrid_timings, original_word))
    /\ i' = i + 1
    /\ UNCHANGED <<inputs, previous, outside, pc, log, whisper_locals, total_duration, whisper_idx,
                   whisper_result, duration, estimate_locals, result>>

\* Faulty variant of hybrid_return: a matched record is the Whisper entry
\* itself, not a copy, so the cap on the last end is written into the list
\* that was passed in.
hybrid_return_clamps_entry ==
    /\ pc = "hybrid_loop"
    /\ i = Len(original_words)
    /\ hybrid_timings' = CapHybrid(hybrid_timings, total_duration)
    /\ word_timings' =
          IF /\ hybrid_timings # <<>>
             /\ hybrid_timings[Len(hybrid_timings)].confidence # Rat(4, 10)
             /\ hybrid_timings' # hybrid_timings
          THEN [word_timings EXCEPT ![whisper_idx].end = total_duration]
          ELSE word_timings
    /\ whisper_result' = Some(hybrid_timings')
    /\ pc' = "whisper_returned"
    /\ log' = Append(log, "Hybrid timing created")
    /\ UNCHANGED <<inputs, previous, outside, original_words, total_duration,
                   whisper_idx, i, duration, estimate_locals, result>>

\* After the loop: cap the last end and return to get_whisper_word_timings,
\* which returns the list to analyze_speech_timing.
hybrid_return ==
    /\ pc = "hybrid_loop"
    /\ i = Len(original_words)
    /\ hybrid_timings' = CapHybrid(hybrid_timings, total_duration)
    /\ whisper_result' = Some(hybrid_timings')
    /\ pc' = "whisper_returned"
    /\ log' = Append(log, "Hybrid timing created")
    /\ UNCHANGED <<inputs, previous, outside, whisper_locals, total_duration, whisper_idx, i, duration,
                   estimate_locals, result>>

\* Python truth of a list-or-None value.
Truthy(v) ==
    v # None /\ v.value # <<>>

\* analyze_speech_timing: "if whisper_result: return whisper_result".
return_whisper_result ==
    /\ pc = "whisper_returned"
    /\ IF Truthy(whisper_result)
       THEN /\ result' = Some(whisper_result.value)
            /\ pc' = "done"
       ELSE /\ pc' = "fallback"
            /\ UNCHANGED result
    /\ UNCHANGED <<inputs, previous, outside, log, whisper_locals, hybrid_locals, i, whisper_result,
                   duration, estimate_locals>>

\* analyze_speech_timing: read the audio duration for the estimation.
fallback_to_estimation ==
    /\ pc = "fallback"
    /\ pc' = "estimate"
    /\ log' = Append(log, "Falling back to estimation method")
    /\ duration' = DurationOr(Split(text))
    /\ UNCHANGED <<inputs, previous, outside, whisper_locals, hybrid_locals, i, whisper_result,
                   estimate_locals, result>>

\* Faulty variant of estimate_enter: the running clock is kept from one call
\* to the next instead of starting at 0.1.
estimate_enter_keeps_clock ==
    /\ pc = "estimate"
    /\ pc' = "estimate_loop"
    /\ log' = Append(log, "Using enhanced word timing estimation")
    /\ words' = Split(text)
    /\ timings' = <<>>
    /\ total_estimated_duration' = SumDurations(words')
    /\ current_time' = IF current_time = Zero THEN Rat(1, 10) ELSE current_time
    /\ i' = 0
    /\ UNCHANGED <<inputs, previous, outside, whisper_locals, hybrid_locals, whisper_result,
                   duration, result>>

\* estimate_word_timings(text, duration) up to its loop.
estimate_enter ==
    /\ pc = "estimate"
    /\ pc' = "estimate_loop"
    /\ log' = Append(log, "Using enhanced word timing estimation")
    /\ words' = Split(text)
    /\ timings' = <<>>
    /\ total_estimated_duration' = SumDurations(words')
    /\ current_time' = Rat(1, 10)
    /\ i' = 0
    /\ UNCHANGED <<inputs, previous, outside, whisper_locals, hybrid_locals, whisper_result, duration,
                   result>>

\* The record estimate_word_timings appends for a word starting at clock.
ScaledTiming(word, scaled_duration, clock) ==
    [word       |-> word,
     start      |-> clock,
     end        |-> RAdd(clock, scaled_duration),
     duration   |-> scaled_duration,
     confidence |-> Rat(3, 10)]

\* One iteration of the loop of estimate_word_timings.
estimate_step ==
    /\ pc = "estimate_loop"
    /\ i < Len(words)
    /\ LET word == words[i + 1]
           scaled_duration ==
               ScaledDuration(estimate_word_duration(word),
                              total_estimated_duration, duration)
           pause == PauseAfter(word, i + 1, Len(words))
       IN  /\ timings' = Append(timings, ScaledTiming(word, scaled_duration, current_time))
           /\ current_time' = RAdd(current_time, RAdd(scaled_duration, pause))
    /\ i' = i + 1
    /\ UNCHANGED <<inputs, previous, outside, pc, log, whisper_locals, hybrid_locals, whisper_result,
                   duration, words, total_estimated_duration, result>>

\* After the loop: cap the last end; analyze_speech_timing returns the list.
estimate_return ==
    /\ pc = "estimate_loop"
    /\ i = Len(words)
    /\ timings' = CapEstimate(timings, duration)
    /\ result' = Some(timings')
    /\ pc' = "done"
    /\ log' = Append(log, "Enhanced estimation complete")
    /\ UNCHANGED <<inputs, previous, outside, whisper_locals, hybrid_locals, i, whisper_result,
                   duration, words, total_estimated_duration, current_time>>

Next ==
    \/ analyze_speech_timing
    \/ transcribe_returns
    \/ transcribe_raises
    \/ hybrid_enter
    \/ hybrid_match
    \/ hybrid_estimate
    \/ hybrid_return
    \/ return_whisper_result
    \/ fallback_to_estimation
    \/ estimate_enter
    \/ estimate_step
    \/ estimate_return

Spec == Init /\ [][Next]_vars

\* ------------------------------------------------------------------- main
\* main() parses --force-estimation into args.force_estimation, builds the
\* generator (whose __init__ loads Whisper when it is installed) and runs
\* create_subtitle_video, which calls analyze_speech_timing.
InitMain ==
    /\ whisper_model \in BOOLEAN
    /\ text \in Texts
    /\ audio_file \in {None} \cup {Some(d) : d \in AudioDurations}
    /\ force_estimation \in BOOLEAN
    /\ pc = "start"
    /\ word_timings = <<>>
    /\ original_words = <<>>
    /\ InitLocals
    /\ InitOutside

SpecMain == InitMain /\ [][Next]_vars

\* ------------------------------------------- estimate_word_timings, twice
\* A caller keeps the list estimate_word_timings returned and calls it again
\* with the same text and audio_duration.
estimate_again ==
    /\ pc = "done"
    /\ previous = None
    /\ previous' = result
    /\ pc' = "estimate"
    /\ UNCHANGED <<inputs, outside, log, whisper_locals, hybrid_locals, i,
                   whisper_result, duration, estimate_locals, result>>

\* No Whisper model is loaded: analyze_speech_timing goes straight to
\* estimate_word_timings.
InitEstimate ==
    /\ Init
    /\ ~whisper_model

NextEstimate ==
    \/ analyze_speech_timing
    \/ fallback_to_estimation
    \/ estimate_enter
    \/ estimate_step
    \/ estimate_return
    \/ estimate_again

SpecEstimate == InitEstimate /\ [][NextEstimate]_vars

\* ----------------------------------- create_hybrid_timings called directly
\* The record get_whisper_word_timings builds for the n-th word (n >= 1) of
\* a transcript whose words all last 0.3 s and lie 0.05 s apart.
EntryAt(word, n) ==
    WordTimingOf([word  |-> word,
                  start |-> RMul(FromInt(n - 1), Rat(35, 100)),
                  end   |-> RAdd(RMul(FromInt(n - 1), Rat(35, 100)), Rat(3, 10))])

\* Characters of the words the match test is tried on.
MatchAlphabet == {"b", "B", "."}

\* Longest Whisper word and longest original word of InitMatch.
MaxMatchLen == 4

\* create_hybrid_timings([entry], [original_word], audio_path) for every
\* Whisper word (possibly empty) and every non-empty original word over
\* MatchAlphabet.
InitMatch ==
    /\ whisper_model = TRUE
    /\ force_estimation = FALSE
    /\ audio_file = Some(Rat(1, 1))
    /\ pc = "hybrid"
    /\ \E w \in SeqsUpTo(MatchAlphabet, MaxMatchLen) :
          word_timings = <<EntryAt(w, 1)>>
    /\ \E o \in SeqsUpTo(MatchAlphabet, MaxMatchLen) \ {<<>>} :
          /\ original_words = <<o>>
          /\ text = o
    /\ InitLocals
    /\ InitOutside

NextHybrid ==
    \/ hybrid_enter
    \/ hybrid_match
    \/ hybrid_estimate
    \/ hybrid_return

SpecMatch == InitMatch /\ [][NextHybrid]_vars

\* Longest Whisper list and longest original word list of InitWindow.
MaxWindowAsr == 7

MaxWindowWords == 2

\* Words of the long Whisper lists.
WindowAsrWords == {<<"h", "i">>, <<"o", "n", "e">>}

\* create_hybrid_timings(whisper_timings, original_words, audio_path) for
\* Whisper lists longer than the search window.
InitWindow ==
    /\ whisper_model = TRUE
    /\ force_estimation = FALSE
    /\ audio_file = Some(Rat(2, 1))
    /\ pc = "hybrid"
    /\ \E ws \in SeqsUpTo(WindowAsrWords, MaxWindowAsr) :
          word_timings = [n \in 1..Len(ws) |-> EntryAt(ws[n], n)]
    /\ \E os \in SeqsUpTo(Vocabulary, MaxWindowWords) :
          /\ original_words = os
          /\ text = Join(os)
    /\ InitLocals
    /\ InitOutside

SpecWindow == InitWindow /\ [][NextHybrid]_vars

\* ------------------------------------- estimate_word_duration on its own
\* Characters of the words estimate_word_duration is tried on: a lower-case
\* vowel, an upper-case vowel and a consonant.
DurationAlphabet == {"a", "E", "b"}

\* Longest word of InitDuration.
MaxDurationLen == 4

\* estimate_word_duration(word) is about to be called.
InitDuration ==
    /\ whisper_model = FALSE
    /\ force_estimation = FALSE
    /\ text = <<>>
    /\ audio_file = None
    /\ pc = "estimate_word_duration"
    /\ word_timings = <<>>
    /\ original_words = <<>>
    /\ InitLocals
    /\ word_arg \in SeqsUpTo(DurationAlphabet, MaxDurationLen)
    /\ word_estimate = None
    /\ temp_dir = TRUE
    /\ success = None
    /\ sentences = <<>>
    /\ current_chunk_text = <<>>
    /\ text_to_synthesize = <<>>
    /\ transcription = None

\* The call returns.
estimate_word_duration_returns ==
    /\ pc = "estimate_word_duration"
    /\ pc' = "returned"
    /\ word_estimate' = Some(estimate_word_duration(word_arg))
    /\ UNCHANGED <<inputs, previous, log, whisper_locals, hybrid_locals, i,
                   whisper_result, duration, estimate_locals, result, word_arg,
                   temp_dir, success, sentences, current_chunk_text,
                   text_to_synthesize, transcription>>

NextDuration ==
    estimate_word_duration_returns

SpecDuration == InitDuration /\ [][NextDuration]_vars

\* ------------------------------ get_whisper_word_timings: the flattening
\* Words of the transcripts that are flattened: those of AsrWords and one
\* with whitespace on both sides.
FlattenWords ==
    AsrWords \cup {[word |-> <<" ", "b", "\t">>, length |-> Rat(1, 10)]}

\* transcribe has returned a result; the loop over its segments is next.
InitFlatten ==
    /\ whisper_model = TRUE
    /\ force_estimation = FALSE
    /\ text = <<>>
    /\ audio_file = None
    /\ pc = "flatten"
    /\ word_timings = <<>>
    /\ original_words = <<>>
    /\ InitLocals
    /\ word_arg = <<>>
    /\ word_estimate = None
    /\ temp_dir = TRUE
    /\ success = None
    /\ sentences = <<>>
    /\ current_chunk_text = <<>>
    /\ text_to_synthesize = <<>>
    /\ \E ws \in SeqsUpTo(FlattenWords, MaxAsr) :
          \E r \in ResultsFor(Timed(ws, Zero)) :
              transcription = Some(r)

\* The loops over result['segments'] and segment.get('words', []).
flatten_segments ==
    /\ pc = "flatten"
    /\ pc' = "flattened"
    /\ word_timings' = FlattenSegments(transcription.value.segments)
    /\ log' = Append(log, "Whisper found words")
    /\ UNCHANGED <<inputs, previous, outside, original_words, hybrid_locals, i,
                   whisper_result, duration, estimate_locals, result>>

NextFlatten ==
    flatten_segments

SpecFlatten == InitFlatten /\ [][NextFlatten]_vars

\* ------------------------------------------- create_hybrid_timings, twice
\* A caller keeps the list create_hybrid_timings returned and calls it again
\* with the same Whisper list, word list and audio file.
hybrid_again ==
    /\ pc = "whisper_returned"
    /\ previous = None
    /\ previous' = whisper_result
    /\ pc' = "hybrid"
    /\ UNCHANGED <<inputs, outside, log, whisper_locals, hybrid_locals, i,
                   whisper_result, duration, estimate_locals, result>>

\* create_hybrid_timings(whisper_timings, original_words, audio_path) for
\* the flattened lists of up to MaxAsr words and texts of up to MaxWords
\* words.
InitRerun ==
    /\ whisper_model = TRUE
    /\ force_estimation = FALSE
    /\ audio_file \in {Some(d) : d \in AudioDurations}
    /\ pc = "hybrid"
    /\ \E ws \in SeqsUpTo(AsrWords, MaxAsr) :
          word_timings = FlattenSegments(<<[words |-> Timed(ws, Zero)]>>)
    /\ \E os \in SeqsUpTo(Vocabulary, MaxWords) :
          /\ original_words = os
          /\ text = Join(os)
    /\ InitLocals
    /\ InitOutside

NextRerun ==
    \/ hybrid_enter
    \/ hybrid_match
    \/ hybrid_estimate
    \/ hybrid_return
    \/ hybrid_again

SpecRerun == InitRerun /\ [][NextRerun]_vars

\* --------------------------------------------------- create_subtitle_video
\* Everything create_subtitle_video itself leaves alone.
video_frame ==
    <<inputs, previous, whisper_locals, hybrid_locals, i, whisper_result,
      duration, estimate_locals, result, word_arg, word_estimate, sentences,
      current_chunk_text, text_to_synthesize, transcription>>

\* cleanup(): rmtree removes the directory, or raises and the except branch
\* only prints.
cleanup(exists, rmtree_raises) ==
    exists /\ rmtree_raises

\* create_subtitle_video is called on a generator whose main audio, once
\* generated, lasts 1 s.
InitVideo ==
    /\ whisper_model \in BOOLEAN
    /\ text \in Texts
    /\ audio_file = Some(Rat(1, 1))
    /\ force_estimation = FALSE
    /\ pc = "create_subtitle_video"
    /\ word_timings = <<>>
    /\ original_words = <<>>
    /\ InitLocals
    /\ InitOutside

\* generate_tts_audio for the main content returns False: return False.
main_tts_fails ==
    /\ pc = "create_subtitle_video"
    /\ pc' = "returned"
    /\ success' = Some(FALSE)
    /\ log' = Append(log, "Exiting due to main content TTS audio generation failure")
    /\ UNCHANGED <<video_frame, temp_dir>>

\* generate_tts_audio for the main content returns True.
main_tts_generated ==
    /\ pc = "create_subtitle_video"
    /\ pc' = "load_main_audio"
    /\ UNCHANGED log
    /\ UNCHANGED <<video_frame, temp_dir, success>>

\* AudioFileClip(main_audio_path) raises: return False.
main_audio_load_fails ==
    /\ pc = "load_main_audio"
    /\ pc' = "returned"
    /\ success' = Some(FALSE)
    /\ log' = Append(log, "Error loading main TTS audio")
    /\ UNCHANGED <<video_frame, temp_dir>>

\* The main audio loads; the intro audio is generated or defaulted (neither
\* returns); the background video is next.
main_audio_loaded ==
    /\ pc = "load_main_audio"
    /\ pc' = "load_background"
    /\ log' = Append(log, "Main audio duration")
    /\ UNCHANGED <<video_frame, temp_dir, success>>

\* The background video is shorter than the final video: return False.
background_too_short ==
    /\ pc = "load_background"
    /\ pc' = "returned"
    /\ success' = Some(FALSE)
    /\ log' = Append(log, "Background video is shorter than the total required video duration")
    /\ UNCHANGED <<video_frame, temp_dir>>

\* Loading or adjusting the background video raises: return False.
background_unloadable ==
    /\ pc = "load_background"
    /\ pc' = "returned"
    /\ success' = Some(FALSE)
    /\ log' = Append(log, "Error loading or adjusting background video")
    /\ UNCHANGED <<video_frame, temp_dir>>

\* The background is ready; analyze_speech_timing is called.
background_loaded ==
    /\ pc = "load_background"
    /\ pc' = "start"
    /\ log' = Append(log, "Final video size for composition")
    /\ UNCHANGED <<video_frame, temp_dir, success>>

\* Compositing and rendering after analyze_speech_timing returned: the try
\* body succeeds or raises, the finally block calls cleanup(), and success
\* is returned.
composite_and_return ==
    /\ pc = "done"
    /\ pc' = "returned"
    /\ \E rendered \in BOOLEAN : success' = Some(rendered)
    /\ \E rmtree_raises \in BOOLEAN : temp_dir' = cleanup(temp_dir, rmtree_raises)
    /\ log' = Append(log, "Compositing final video")
    /\ UNCHANGED video_frame

NextVideo ==
    \/ main_tts_fails
    \/ main_tts_generated
    \/ main_audio_load_fails
    \/ main_audio_loaded
    \/ background_too_short
    \/ background_unloadable
    \/ background_loaded
    \/ composite_and_return
    \/ Next

SpecVideo == InitVideo /\ [][NextVideo]_vars

\* ------------------------------------------------------ generate_tts_audio
\* The chunking reads only the lengths of the sentences and slices them, so
\* a sentence is its length, a piece of text is a slice [from, to) of one
\* sentence, and a chunk is the list of the slices it joins with single
\* spaces.
POLLY_MAX_CHARS == 2950

\* Lengths of the stripped, non-empty sentences the split produces: short,
\* two that fill a chunk exactly (1474 + 1 + 1475), the limit, one over it,
\* and one of two full pieces and a remainder.
SentenceLengths == {1, 1474, 1475, 2950, 2951, 5901}

\* Most sentences of a text.
MaxSentences == 3

RECURSIVE SumLengths(_)
SumLengths(chunk) ==
    IF chunk = <<>> THEN 0
    ELSE (Head(chunk).to - Head(chunk).from) + SumLengths(Tail(chunk))

\* len(chunk): its slices and the spaces between them.
ChunkLen(chunk) ==
    IF chunk = <<>> THEN 0 ELSE SumLengths(chunk) + (Len(chunk) - 1)

\* The whole of sentence k.
Whole(k) ==
    [sentence |-> k, from |-> 0, to |-> sentences[k]]

\* sentence[i:i + POLLY_MAX_CHARS] for i in range(0, len(sentence),
\* POLLY_MAX_CHARS), each a chunk of its own.
SubChunks(k) ==
    [n \in 1..((sentences[k] + POLLY_MAX_CHARS - 1) \div POLLY_MAX_CHARS) |->
        <<[sentence |-> k,
           from     |-> (n - 1) * POLLY_MAX_CHARS,
           to       |-> Min(n * POLLY_MAX_CHARS, sentences[k])]>>]

\* Faulty variant of Fits: the joining space is not counted.
Fits_ignores_separator(k) ==
    ChunkLen(current_chunk_text) + sentences[k] <= POLLY_MAX_CHARS

\* Sentence k can be added to the current chunk.
Fits(k) ==
    ~(ChunkLen(current_chunk_text) + sentences[k]
          + (IF current_chunk_text # <<>> THEN 1 ELSE 0) > POLLY_MAX_CHARS)

\* "if current_chunk_text: self._synthesize_and_append(current_chunk_text)"
Flushed ==
    IF current_chunk_text # <<>> THEN <<current_chunk_text>> ELSE <<>>

\* Everything generate_tts_audio leaves alone.
tts_frame ==
    <<inputs, previous, log, whisper_locals, hybrid_locals, whisper_result,
      duration, estimate_locals, result, word_arg, word_estimate, temp_dir,
      success, sentences, transcription>>

\* generate_tts_audio has split the text into sentences; its loop is next.
InitTts ==
    /\ whisper_model = FALSE
    /\ force_estimation = FALSE
    /\ text = <<>>
    /\ audio_file = None
    /\ pc = "tts_loop"
    /\ word_timings = <<>>
    /\ original_words = <<>>
    /\ InitLocals
    /\ word_arg = <<>>
    /\ word_estimate = None
    /\ temp_dir = TRUE
    /\ success = None
    /\ sentences \in SeqsUpTo(SentenceLengths, MaxSentences)
    /\ current_chunk_text = <<>>
    /\ text_to_synthesize = <<>>
    /\ transcription = None

\* The chunks the next step of generate_tts_audio passes to
\* _synthesize_and_append, in order.
Passed ==
    IF i = Len(sentences) THEN Flushed
    ELSE IF sentences[i + 1] > POLLY_MAX_CHARS THEN Flushed \o SubChunks(i + 1)
    ELSE IF ~Fits(i + 1) THEN <<current_chunk_text>>
    ELSE <<>>

\* An iteration for a sentence longer than POLLY_MAX_CHARS.
tts_long_sentence ==
    /\ pc = "tts_loop"
    /\ i < Len(sentences)
    /\ sentences[i + 1] > POLLY_MAX_CHARS
    /\ text_to_synthesize' = text_to_synthesize \o Passed
    /\ current_chunk_text' = <<>>
    /\ i' = i + 1
    /\ UNCHANGED <<tts_frame, pc>>

\* An iteration for a sentence that does not fit the current chunk.
tts_start_chunk ==
    /\ pc = "tts_loop"
    /\ i < Len(sentences)
    /\ ~(sentences[i + 1] > POLLY_MAX_CHARS)
    /\ ~Fits(i + 1)
    /\ text_to_synthesize' = text_to_synthesize \o Passed
    /\ current_chunk_text' = <<Whole(i + 1)>>
    /\ i' = i + 1
    /\ UNCHANGED <<tts_frame, pc>>

\* An iteration for a sentence that fits the current chunk.
tts_extend_chunk ==
    /\ pc = "tts_loop"
    /\ i < Len(sentences)
    /\ ~(sentences[i + 1] > POLLY_MAX_CHARS)
    /\ Fits(i + 1)
    /\ current_chunk_text' = Append(current_chunk_text, Whole(i + 1))
    /\ i' = i + 1
    /\ UNCHANGED <<tts_frame, pc, text_to_synthesize>>

\* After the loop: synthesize the remaining chunk.
tts_finish ==
    /\ pc = "tts_loop"
    /\ i = Len(sentences)
    /\ text_to_synthesize' = text_to_synthesize \o Passed
    /\ pc' = "tts_done"
    /\ UNCHANGED <<tts_frame, current_chunk_text, i>>

\* One of the calls of _synthesize_and_append of the next step raises;
\* generate_tts_audio passes the exception on.
synthesize_raises ==
    /\ pc = "tts_loop"
    /\ \E n \in 1..Len(Passed) :
          text_to_synthesize' = text_to_synthesize \o SubSeq(Passed, 1, n)
    /\ pc' = "tts_raised"
    /\ UNCHANGED <<tts_frame, current_chunk_text, i>>

NextTts ==
    \/ tts_long_sentence
    \/ tts_start_chunk
    \/ tts_extend_chunk
    \/ tts_finish
    \/ synthesize_raises

SpecTts == InitTts /\ [][NextTts]_vars

\* ------------------------------------------------------------- properties
InLog(message) ==
    \E k \in 1..Len(log) : log[k] = message

\* create_hybrid_timings has returned its list.
HybridReturned ==
    InLog("Hybrid timing created")

\* estimate_word_timings has returned its list.
EstimateReturned ==
    InLog("Enhanced estimation complete")

Last(s) ==
    s[Len(s)]

\* C1: for every non-empty text and every ASR outcome, the sequence
\* analyze_speech_timing returns has exactly one record per word of
\* text.split(), whichever tier produced it.
C1_Totality ==
    (pc = "done" /\ Split(text) # <<>>)
        => Len(result.value) = Len(Split(text))

\* C2: create_hybrid_timings makes one forward pass over original_words:
\* the loop index never passes the last word, every iteration moves to the
\* next word and appends exactly one record (so the loop ends after
\* len(original_words) iterations), and the list returned has one record per
\* original word.
C2_OneRecordPerWord ==
    /\ [](pc = "hybrid_loop" =>
            (Len(hybrid_timings) = i /\ i <= Len(original_words)))
    /\ [][(pc = "hybrid_loop" /\ pc' = "hybrid_loop") =>
            (i' = i + 1 /\ Len(hybrid_timings') = Len(hybrid_timings) + 1)]_vars
    /\ [](HybridReturned => Len(hybrid_timings) = Len(original_words))

\* C2 witness: the aligner has returned a list holding both a matched and a
\* synthesized record.
C2_Witness ==
    /\ HybridReturned
    /\ \E k \in 1..Len(hybrid_timings) : hybrid_timings[k].confidence = Rat(4, 10)
    /\ \E k \in 1..Len(hybrid_timings) : hybrid_timings[k].confidence # Rat(4, 10)

\* C3: in the lists built by create_hybrid_timings and estimate_word_timings
\* the word of the k-th record is the k-th word of the text, exactly; the ASR
\* spelling never appears.
C3_TextFidelity ==
    /\ \A k \in 1..Len(hybrid_timings) : hybrid_timings[k].word = Split(text)[k]
    /\ \A k \in 1..Len(timings) : timings[k].word = Split(text)[k]

\* C3 witness: a returned hybrid list holds a record matched to an ASR entry
\* whose transcribed spelling differs from the original word.
C3_Witness ==
    /\ HybridReturned
    /\ \E k \in 1..Len(hybrid_timings) : \E j \in 1..Len(word_timings) :
          /\ hybrid_timings[k].start = word_timings[j].start
          /\ hybrid_timings[k].confidence = word_timings[j].confidence
          /\ hybrid_timings[k].word # word_timings[j].word

\* C4: analyze_speech_timing never returns an empty sequence for a text with
\* at least one word, on any path.
C4_NeverEmpty ==
    (pc = "done" /\ Split(text) # <<>>) => result.value # <<>>

\* C4 witness: a non-empty text whose ASR result had no words at all got its
\* timings from the hybrid aligner.
C4_Witness ==
    /\ pc = "done"
    /\ Split(text) # <<>>
    /\ whisper_model
    /\ word_timings = <<>>
    /\ HybridReturned
    /\ result = Some(hybrid_timings)

\* C5: for the empty text analyze_speech_timing returns the empty sequence,
\* whatever the ASR engine returns.
C5_EmptyText ==
    (pc = "done" /\ text = <<>>) => result.value = <<>>

\* C6: when transcription raises, get_whisper_word_timings yields None, the
\* hybrid aligner is never entered, and analyze_speech_timing returns what
\* estimate_word_timings built from (text, duration): every record has
\* confidence 0.3.
C6_AsrRaisesFallsToEstimation ==
    InLog("Whisper analysis failed") =>
        /\ whisper_result = None
        /\ pc \notin {"hybrid", "hybrid_loop"}
        /\ ~InLog("Creating hybrid timing with gap filling")
        /\ (pc = "done" =>
              /\ EstimateReturned
              /\ result = Some(timings)
              /\ words = Split(text)
              /\ duration = DurationOr(Split(text))
              /\ Len(timings) = Len(words)
              /\ \A k \in 1..Len(timings) : timings[k].confidence = Rat(3, 10))

\* C6 witness: transcription raised and analyze_speech_timing has returned
\* timings for a non-empty text.
C6_Witness ==
    /\ InLog("Whisper analysis failed")
    /\ pc = "done"
    /\ result.value # <<>>

\* C7: in a list returned by create_hybrid_timings (the ASR entries being
\* ordered and non-overlapping), consecutive records satisfy
\* start[k] <= start[k+1] and end[k] <= start[k+1].
C7_NoOverlap ==
    HybridReturned =>
        \A k \in 1..(Len(hybrid_timings) - 1) :
            /\ RLe(hybrid_timings[k].start, hybrid_timings[k + 1].start)
            /\ RLe(hybrid_timings[k].end, hybrid_timings[k + 1].start)

\* C8 as claimed: the last record's end of a list returned by
\* create_hybrid_timings is <= the total audio duration.
C8_LastEndWithinAudio ==
    (HybridReturned /\ hybrid_timings # <<>>)
        => RLe(Last(hybrid_timings).end, total_duration)

\* C8 as amended: the step that caps and returns leaves the last record's end
\* <= total_duration + 0.1: an end above total_duration + 0.1 becomes exactly
\* total_duration, any other end (also one between total_duration and
\* total_duration + 0.1) is left as it is.
C8_LastEndWithinBuffer ==
    [][(pc = "hybrid_loop" /\ pc' = "whisper_returned" /\ hybrid_timings # <<>>) =>
          /\ RLe(Last(hybrid_timings').end, RAdd(total_duration, Rat(1, 10)))
          /\ IF RGt(Last(hybrid_timings).end, RAdd(total_duration, Rat(1, 10)))
             THEN Last(hybrid_timings').end = total_duration
             ELSE Last(hybrid_timings').end = Last(hybrid_timings).end]_vars

\* C8 witness: a returned hybrid list whose last end lies above the total
\* duration, inside the 0.1 s buffer.
C8_Witness ==
    /\ HybridReturned
    /\ hybrid_timings # <<>>
    /\ RGt(Last(hybrid_timings).end, total_duration)
    /\ RLe(Last(hybrid_timings).end, RAdd(total_duration, Rat(1, 10)))

\* C9: the step of estimate_word_timings that caps and returns leaves the
\* last record's end <= audio_duration: equal to audio_duration when the
\* end overshot it, unchanged otherwise.
C9_EstimateLastEndCapped ==
    [][(pc = "estimate_loop" /\ pc' = "done" /\ timings # <<>>) =>
          /\ RLe(Last(timings').end, duration)
          /\ IF RGt(Last(timings).end, duration)
             THEN Last(timings').end = duration
             ELSE Last(timings').end = Last(timings).end]_vars

\* C9 witness: estimate_word_timings returned a list whose last end was
\* capped to the audio duration.
C9_Witness ==
    /\ EstimateReturned
    /\ timings # <<>>
    /\ Last(timings).end = duration
    /\ RGt(RAdd(Last(timings).start, Last(timings).duration), duration)

\* C10: every record emitted by create_hybrid_timings and by
\* estimate_word_timings has start >= 0 and end > start, the capped last
\* record included.
C10_PositiveIntervals ==
    /\ (HybridReturned =>
          \A k \in 1..Len(hybrid_timings) :
              /\ RLe(Zero, hybrid_timings[k].start)
              /\ RGt(hybrid_timings[k].end, hybrid_timings[k].start))
    /\ (EstimateReturned =>
          \A k \in 1..Len(timings) :
              /\ RLe(Zero, timings[k].start)
              /\ RGt(timings[k].end, timings[k].start))

\* C11: in every list returned by create_hybrid_timings and by
\* estimate_word_timings, each record's duration equals end - start, the
\* last record after the cap included.
C11_DurationConsistent ==
    /\ (HybridReturned =>
          \A k \in 1..Len(hybrid_timings) :
              hybrid_timings[k].duration =
                  RSub(hybrid_timings[k].end, hybrid_timings[k].start))
    /\ (EstimateReturned =>
          \A k \in 1..Len(timings) :
              timings[k].duration = RSub(timings[k].end, timings[k].start))

\* get_whisper_word_timings returned from its try body (transcribe did not
\* raise) and analyze_speech_timing has returned.
AsrSucceeded ==
    /\ pc = "done"
    /\ InLog("Analyzing audio with Whisper AI")
    /\ ~InLog("Whisper analysis failed")

\* C12: when transcription succeeds, analyze_speech_timing returns the ASR
\* list unchanged exactly when asrWordCount >= 0.7 * wordCount; otherwise the
\* hybrid aligner ran on the full word list and its list is what is returned.
C12_TierByThreshold ==
    AsrSucceeded =>
        IF 10 * Len(word_timings) >= 7 * Len(Split(text))
        THEN /\ result = Some(word_timings)
             /\ ~InLog("Creating hybrid timing with gap filling")
        ELSE /\ HybridReturned
             /\ original_words = Split(text)
             /\ Len(hybrid_timings) = Len(Split(text))
             /\ result = Some(hybrid_timings)
             /\ result # Some(word_timings)

\* C12 witness: a sufficient ASR list was returned as it is, with the ASR
\* spelling of the first word.
C12_Witness ==
    /\ AsrSucceeded
    /\ 10 * Len(word_timings) >= 7 * Len(Split(text))
    /\ Split(text) # <<>>
    /\ result = Some(word_timings)
    /\ result.value[1].word # Split(text)[1]

\* make_frame(t): the records whose [start, end) holds t; the caption shown
\* is the word of the first of them.
Containing(word_timings_, t) ==
    {k \in 1..Len(word_timings_) :
        RLe(word_timings_[k].start, t) /\ RLt(t, word_timings_[k].end)}

\* C13: for every list analyze_speech_timing returns and every time t, at
\* most one record holds t.  Two half-open intervals that share a point share
\* the later of their starts, so the starts are the times to try.
C13_UniqueCaption ==
    pc = "done" =>
        \A k \in 1..Len(result.value) :
            Cardinality(Containing(result.value, result.value[k].start)) <= 1

Cleaned(word) ==
    Strip(Lower(word), StripChars)

\* The match test as claimed, on two cleaned words: equal, or the shorter is
\* longer than 2 characters and occurs in the longer.
ClaimedMatch(a, b) ==
    LET shorter == IF Len(a) <= Len(b) THEN a ELSE b
        longer  == IF Len(a) <= Len(b) THEN b ELSE a
    IN  \/ a = b
        \/ (Len(shorter) > 2 /\ Contains(longer, shorter))

\* C15: an iteration of the hybrid loop matches exactly when some entry of
\* its window and the original word, both cleaned, are equal or one occurs in
\* the other and the shorter has more than 2 characters.
C15_MatchPredicate ==
    [][(pc = "hybrid_loop" /\ pc' = "hybrid_loop") =>
          ((whisper_idx' # whisper_idx) <=>
              \E j \in (whisper_idx + 1)..Min(whisper_idx + 5, Len(word_timings)) :
                  ClaimedMatch(Cleaned(word_timings[j].word),
                               Cleaned(original_words[i + 1])))]_vars

\* C15 witness: an ASR word of more than 2 cleaned characters that occurs in
\* a longer original word was matched, not synthesized.
C15_Witness ==
    /\ HybridReturned
    /\ Len(hybrid_timings) = 1
    /\ Len(word_timings) = 1
    /\ hybrid_timings[1].confidence # Rat(4, 10)
    /\ Len(Cleaned(word_timings[1].word)) > 2
    /\ Len(Cleaned(word_timings[1].word)) < Len(Cleaned(original_words[1]))
    /\ Contains(Cleaned(original_words[1]), Cleaned(word_timings[1].word))

\* C16: a second call of estimate_word_timings with the same text and
\* audio_duration returns the same list as the first.
C16_SameOutputTwice ==
    (pc = "done" /\ previous # None) => result = previous

\* C16 witness: the second call has returned a list of at least two records.
C16_Witness ==
    /\ pc = "done"
    /\ previous # None
    /\ Len(result.value) >= 2

\* C17: with --force-estimation the Whisper path is never taken and the
\* timings returned are those of estimate_word_timings, also when a Whisper
\* model is loaded.
C17_ForceEstimation ==
    force_estimation =>
        /\ pc \notin {"transcribe", "hybrid", "hybrid_loop"}
        /\ ~InLog("Analyzing audio with Whisper AI")
        /\ (pc = "done" => (EstimateReturned /\ result = Some(timings)))

\* C18: a synthesized record starts 0.1 s in when nothing was emitted before
\* it, and otherwise at the end of the previously emitted record plus a
\* pause of 0.15 s if the previous original word ends in '.', '!' or '?' and
\* 0.05 s if not; its duration is estimate_word_duration(word) and its end is
\* start + duration.
C18_SynthesizedPlacement ==
    [][(pc = "hybrid_loop" /\ pc' = "hybrid_loop" /\ whisper_idx' = whisper_idx) =>
          LET r     == Last(hybrid_timings')
              pause == IF EndsWith(original_words[i], {".", "!", "?"})
                       THEN Rat(15, 100) ELSE Rat(5, 100)
          IN  /\ r.start = IF hybrid_timings = <<>> THEN Rat(1, 10)
                           ELSE RAdd(Last(hybrid_timings).end, pause)
              /\ r.duration = estimate_word_duration(original_words[i + 1])
              /\ r.end = RAdd(r.start, r.duration)]_vars

\* C19: an iteration looks only at the (at most 5) entries after the cursor:
\* a match takes the first of them that matches, and when none of them
\* matches the word is synthesized, whatever lies further on in the list.
C19_BoundedWindow ==
    [][(pc = "hybrid_loop" /\ pc' = "hybrid_loop") =>
          LET o  == original_words[i + 1]
              lo == whisper_idx + 1
              hi == Min(whisper_idx + 5, Len(word_timings))
          IN  IF whisper_idx' # whisper_idx
              THEN /\ whisper_idx' \in lo..hi
                   /\ WordsMatch(word_timings[whisper_idx'].word, o)
                   /\ \A j \in lo..(whisper_idx' - 1) :
                         ~WordsMatch(word_timings[j].word, o)
                   /\ Last(hybrid_timings').start = word_timings[whisper_idx'].start
              ELSE /\ \A j \in lo..hi : ~WordsMatch(word_timings[j].word, o)
                   /\ Last(hybrid_timings').confidence = Rat(4, 10)]_vars

\* C19 witness: the first word was synthesized although an entry beyond the
\* first five is an exact match for it.
C19_Witness ==
    /\ HybridReturned
    /\ hybrid_timings # <<>>
    /\ hybrid_timings[1].confidence = Rat(4, 10)
    /\ \E j \in 6..Len(word_timings) :
          Cleaned(word_timings[j].word) = Cleaned(original_words[1])

\* The records of hybrid_timings copied from an ASR entry, and the entry each
\* was copied from (the lists of InitWindow carry no probability and their
\* entries have distinct starts).
MatchedRecords ==
    {k \in 1..Len(hybrid_timings) : hybrid_timings[k].confidence # Rat(4, 10)}

UsedEntry(k) ==
    CHOOSE j \in 1..Len(word_timings) :
        word_timings[j].start = hybrid_timings[k].start

\* C20: the cursor stays within 0..len(whisper_timings) and never moves
\* back; a match at entry j moves it past j; the entries used by matched
\* records are strictly increasing in output order (so none is used twice)
\* and all lie before the cursor.
C20_CursorMonotone ==
    /\ [](whisper_idx \in 0..Len(word_timings))
    /\ [][whisper_idx' >= whisper_idx]_vars
    /\ [][(pc = "hybrid_loop" /\ pc' = "hybrid_loop"
              /\ Last(hybrid_timings').confidence # Rat(4, 10)) =>
             /\ whisper_idx' > whisper_idx
             /\ Last(hybrid_timings').start = word_timings[whisper_idx'].start]_vars
    /\ [](\A k \in MatchedRecords :
            /\ UsedEntry(k) <= whisper_idx
            /\ \A m \in MatchedRecords : k < m => UsedEntry(k) < UsedEntry(m))

\* C20 witness: two words were matched and the cursor skipped entries.
C20_Witness ==
    /\ HybridReturned
    /\ Cardinality(MatchedRecords) = 2
    /\ \E k \in MatchedRecords : \E m \in MatchedRecords :
          k < m /\ UsedEntry(m) > UsedEntry(k) + 1

\* C21: an iteration that finds no match in its window leaves the cursor
\* and the ASR list as they were, so the next word searches the same
\* entries; a run in which no word matched has consumed no entry.
C21_UnmatchedKeepsCursor ==
    /\ [][(pc = "hybrid_loop" /\ pc' = "hybrid_loop"
              /\ Last(hybrid_timings').confidence = Rat(4, 10)) =>
             /\ whisper_idx' = whisper_idx
             /\ word_timings' = word_timings
             /\ {j \in 1..Len(word_timings') :
                    j > whisper_idx' /\ j <= whisper_idx' + 5}
                = {j \in 1..Len(word_timings) :
                    j > whisper_idx /\ j <= whisper_idx + 5}]_vars
    /\ []((pc = "hybrid_loop" /\ MatchedRecords = {}) => whisper_idx = 0)

\* C21 witness: the first word was synthesized and the second word then
\* matched the very first ASR entry.
C21_Witness ==
    /\ HybridReturned
    /\ Len(hybrid_timings) = 2
    /\ hybrid_timings[1].confidence = Rat(4, 10)
    /\ hybrid_timings[2].confidence # Rat(4, 10)
    /\ hybrid_timings[2].start = word_timings[1].start

\* C22: the step after the loop changes at most the end of the last record:
\* it becomes total_duration when it was > total_duration + 0.1 and stays as
\* it was otherwise; every other field of the last record and all earlier
\* records are as before.
C22_ClampFrame ==
    [][(pc = "hybrid_loop" /\ pc' = "whisper_returned") =>
          LET n == Len(hybrid_timings)
          IN  /\ Len(hybrid_timings') = n
              /\ \A k \in 1..(n - 1) : hybrid_timings'[k] = hybrid_timings[k]
              /\ (n > 0 =>
                    /\ hybrid_timings'[n].word = hybrid_timings[n].word
                    /\ hybrid_timings'[n].start = hybrid_timings[n].start
                    /\ hybrid_timings'[n].duration = hybrid_timings[n].duration
                    /\ hybrid_timings'[n].confidence = hybrid_timings[n].confidence
                    /\ hybrid_timings'[n].end =
                          IF RGt(hybrid_timings[n].end,
                                 RAdd(total_duration, Rat(1, 10)))
                          THEN total_duration
                          ELSE hybrid_timings[n].end)]_vars

\* C22 witness: a list of at least two records was returned whose last end
\* was clamped (start + duration lies beyond total_duration + 0.1).
C22_Witness ==
    /\ HybridReturned
    /\ Len(hybrid_timings) >= 2
    /\ Last(hybrid_timings).end = total_duration
    /\ RGt(RAdd(Last(hybrid_timings).start, Last(hybrid_timings).duration),
           RAdd(total_duration, Rat(1, 10)))

\* C23 as claimed: the clock of estimate_word_timings starts at 0.1 and
\* advances after each word by its scaled duration plus a pause of 0.1 for
\* the final word, 0.15 after a word ending in '.', '!' or '?' and 0.05
\* otherwise, the values create_hybrid_timings uses.
C23_SamePauseAsHybrid ==
    [][/\ ((pc = "estimate" /\ pc' = "estimate_loop") =>
              current_time' = Rat(1, 10))
       /\ ((pc = "estimate_loop" /\ pc' = "estimate_loop") =>
              LET w     == words[i + 1]
                  pause == IF i + 1 = Len(words) THEN Rat(1, 10)
                           ELSE IF EndsWith(w, {".", "!", "?"}) THEN Rat(15, 100)
                           ELSE Rat(5, 100)
              IN  /\ Last(timings').start = current_time
                  /\ current_time' =
                        RAdd(current_time, RAdd(Last(timings').duration, pause)))]_vars

\* C23 amended: the clock starts at 0.1 and advances after each word by its
\* scaled duration plus a pause of 0.1 for the final word and otherwise 0.2
\* after a word ending in ',' or ';', 0.4 after a word ending in '.', '!' or
\* '?' and 0.05 after any other word.
C23_EstimatePauses ==
    [][/\ ((pc = "estimate" /\ pc' = "estimate_loop") =>
              current_time' = Rat(1, 10))
       /\ ((pc = "estimate_loop" /\ pc' = "estimate_loop") =>
              LET w     == words[i + 1]
                  pause == IF i + 1 = Len(words) THEN Rat(1, 10)
                           ELSE IF EndsWith(w, {",", ";"}) THEN Rat(2, 10)
                           ELSE IF EndsWith(w, {".", "!", "?"}) THEN Rat(4, 10)
                           ELSE Rat(5, 100)
              IN  /\ Last(timings').start = current_time
                  /\ current_time' =
                        RAdd(current_time, RAdd(Last(timings').duration, pause)))]_vars

\* C23 witness: a text was estimated whose first word ends a sentence, whose
\* second word ends in a comma and whose third word is the final one.
C23_Witness ==
    /\ pc = "done"
    /\ EstimateReturned
    /\ Len(words) = 3
    /\ EndsWith(words[1], {".", "!", "?"})
    /\ EndsWith(words[2], {",", ";"})
    /\ Len(timings) = 3

\* Sum of the duration fields of a list of records.
RECURSIVE SumOfDurations(_)
SumOfDurations(records) ==
    IF records = <<>> THEN Zero
    ELSE RAdd(Head(records).duration, SumOfDurations(Tail(records)))

\* C24: a non-empty list returned by estimate_word_timings for a positive
\* audio duration starts at 0.1, has strictly increasing starts, each next
\* start lies a positive pause after the end before it, and the scaled
\* durations sum to 0.9 * audio_duration.
C24_EstimateLayout ==
    (pc = "done" /\ EstimateReturned /\ timings # <<>> /\ RGt(duration, Zero)) =>
        /\ timings[1].start = Rat(1, 10)
        /\ \A k \in 1..(Len(timings) - 1) :
              /\ RLt(timings[k].start, timings[k + 1].start)
              /\ RGt(RSub(timings[k + 1].start, timings[k].end), Zero)
              /\ RSub(timings[k + 1].start, timings[k].end)
                    \in {Rat(5, 100), Rat(2, 10), Rat(4, 10)}
        /\ SumOfDurations(timings) = RMul(Rat(9, 10), duration)

\* C24 witness: three records were returned and the last end was capped.
C24_Witness ==
    /\ pc = "done"
    /\ EstimateReturned
    /\ Len(timings) = 3
    /\ RGt(duration, Zero)
    /\ Last(timings).end = duration
    /\ RGt(RAdd(Last(timings).start, Last(timings).duration), duration)

\* C26: in estimate_word_timings the total estimate is 0 exactly when there
\* are no words (every estimate is at least the base 0.3), the output is
\* then empty, and every iteration takes the scaled branch, never the 0.3
\* default.
C26_DefaultBranchUnreachable ==
    /\ [](pc \in {"estimate_loop", "done"} =>
            /\ (total_estimated_duration = Zero <=> words = <<>>)
            /\ \A k \in 1..Len(words) :
                  RLe(Rat(3, 10), estimate_word_duration(words[k]))
            /\ ((pc = "done" /\ words = <<>>) => result = Some(<<>>)))
    /\ [][(pc = "estimate_loop" /\ pc' = "estimate_loop") =>
             /\ RGt(total_estimated_duration, Zero)
             /\ Last(timings').duration =
                   RMul(RMul(RDiv(estimate_word_duration(words[i + 1]),
                                  total_estimated_duration),
                             duration),
                        Rat(9, 10))]_vars

\* C26 witness: a one-word text was estimated and its record got the whole
\* 90% share, which is not the 0.3 default.
C26_Witness ==
    /\ pc = "done"
    /\ EstimateReturned
    /\ Len(words) = 1
    /\ RGt(total_estimated_duration, Zero)
    /\ timings[1].duration = RMul(Rat(9, 10), duration)
    /\ timings[1].duration # Rat(3, 10)

\* Number of characters of w that are in 'aeiouAEIOU'.
VowelCount(w) ==
    Cardinality({k \in 1..Len(w) :
                    w[k] \in {"a", "e", "i", "o", "u", "A", "E", "I", "O", "U"}})

\* C25: estimate_word_duration(word) returns, for every word,
\* 0.30 + 0.02 * len(word) + 0.05 * max(0, v - 2) with v the number of
\* vowels of the word; appending a character never gives a smaller estimate,
\* and a word with more characters and no fewer vowels never gets a shorter
\* estimate.
C25_DurationFormula ==
    pc = "returned" =>
        LET v      == VowelCount(word_arg)
            excess == IF v - 2 > 0 THEN v - 2 ELSE 0
        IN  /\ word_estimate # None
            /\ word_estimate.value =
                  RAdd(RAdd(Rat(30, 100),
                            RMul(Rat(2, 100), FromInt(Len(word_arg)))),
                       RMul(Rat(5, 100), FromInt(excess)))
            /\ \A c \in DurationAlphabet :
                  RLe(word_estimate.value,
                      estimate_word_duration(Append(word_arg, c)))
            /\ \A longer \in SeqsUpTo(DurationAlphabet, MaxDurationLen) :
                  (Len(longer) > Len(word_arg) /\ VowelCount(longer) >= v) =>
                      RLe(word_estimate.value, estimate_word_duration(longer))

\* C25 witness: a four-letter word of four vowels got 0.3 + 0.08 + 0.1.
C25_Witness ==
    /\ pc = "returned"
    /\ Len(word_arg) = 4
    /\ VowelCount(word_arg) = 4
    /\ word_estimate = Some(Rat(48, 100))

\* Number of word_info entries in the first n segments.
RECURSIVE WordsBefore(_, _)
WordsBefore(segments, n) ==
    IF n = 0 THEN 0
    ELSE WordsBefore(segments, n - 1)
         + (IF "words" \in DOMAIN segments[n] THEN Len(segments[n].words) ELSE 0)

\* C27: the flattened list has one record per ASR word over all segments,
\* in segment order and then word order; the record's word is the ASR word
\* without surrounding whitespace, its start and end are the ASR ones, its
\* duration is end - start and its confidence is the ASR probability, or
\* 1.0 when there is none; a segment without words contributes nothing.
C27_Flatten ==
    pc = "flattened" =>
        LET segments == transcription.value.segments
        IN  /\ Len(word_timings) = WordsBefore(segments, Len(segments))
            /\ \A n \in 1..Len(segments) :
                  IF "words" \in DOMAIN segments[n]
                  THEN \A m \in 1..Len(segments[n].words) :
                          LET info == segments[n].words[m]
                              r    == word_timings[WordsBefore(segments, n - 1) + m]
                          IN  /\ r.word = Strip(info.word, {" ", "\t", "\n"})
                              /\ r.start = info.start
                              /\ r.end = info.end
                              /\ r.duration = RSub(info.end, info.start)
                              /\ r.confidence =
                                    IF "probability" \in DOMAIN info
                                    THEN info.probability
                                    ELSE Rat(1, 1)
                  ELSE WordsBefore(segments, n) = WordsBefore(segments, n - 1)

\* C27 witness: two words in two segments around a segment without words
\* were flattened, one with whitespace around it and no probability, one
\* with a probability.
C27_Witness ==
    /\ pc = "flattened"
    /\ Len(transcription.value.segments) = 3
    /\ Len(transcription.value.segments[1].words) = 1
    /\ Len(transcription.value.segments[3].words) = 1
    /\ Len(word_timings) = 2
    /\ word_timings[1].word = <<"b">>
    /\ word_timings[1].confidence = Rat(1, 1)
    /\ word_timings[2].confidence = Rat(8, 10)

\* C28: no step of create_hybrid_timings changes the ASR list or the word
\* list it was given, not even the cap on the last end, and a second run on
\* the same inputs returns the same list as the first.
C28_InputsUntouched ==
    /\ [][word_timings' = word_timings /\ original_words' = original_words]_vars
    /\ []((pc = "whisper_returned" /\ previous # None) =>
            whisper_result = previous)

\* C28 witness: the second run has returned; its last record was copied
\* from the last consumed ASR entry and its end was capped, while the entry
\* still has its own end.
C28_Witness ==
    /\ pc = "whisper_returned"
    /\ previous # None
    /\ hybrid_timings # <<>>
    /\ whisper_idx > 0
    /\ Last(hybrid_timings).confidence # Rat(4, 10)
    /\ Last(hybrid_timings).start = word_timings[whisper_idx].start
    /\ Last(hybrid_timings).end = total_duration
    /\ RGt(word_timings[whisper_idx].end, RAdd(total_duration, Rat(1, 10)))

\* C29: whenever create_subtitle_video has returned, on any of its return
\* paths, the temporary directory created in __init__ no longer exists.
C29_CleanupOnEveryReturn ==
    pc = "returned" => ~temp_dir

\* All slices of a list of chunks, in order.
RECURSIVE Slices(_)
Slices(chunks) ==
    IF chunks = <<>> THEN <<>> ELSE Head(chunks) \o Slices(Tail(chunks))

\* C30: every chunk passed to _synthesize_and_append is non-empty and no
\* longer than POLLY_MAX_CHARS; the chunks follow the order of the
\* sentences; and when generate_tts_audio is through, every sentence is in
\* exactly one chunk, or, if longer than POLLY_MAX_CHARS, cut into
\* consecutive pieces that reproduce it, nothing dropped and nothing twice.
C30_Chunks ==
    LET P == Slices(text_to_synthesize)
    IN  /\ \A c \in 1..Len(text_to_synthesize) :
              /\ text_to_synthesize[c] # <<>>
              /\ \A m \in 1..Len(text_to_synthesize[c]) :
                    text_to_synthesize[c][m].from < text_to_synthesize[c][m].to
              /\ ChunkLen(text_to_synthesize[c]) <= 2950
        /\ (P # <<>> => (P[1].sentence = 1 /\ P[1].from = 0))
        /\ \A n \in 1..(Len(P) - 1) :
              \/ (P[n + 1].sentence = P[n].sentence /\ P[n + 1].from = P[n].to)
              \/ /\ P[n + 1].sentence = P[n].sentence + 1
                 /\ P[n + 1].from = 0
                 /\ P[n].to = sentences[P[n].sentence]
        /\ (pc = "tts_done" =>
              /\ (sentences # <<>> =>
                    /\ P # <<>>
                    /\ P[Len(P)].sentence = Len(sentences)
                    /\ P[Len(P)].to = sentences[Len(sentences)])
              /\ \A k \in 1..Len(sentences) :
                    sentences[k] <= 2950 =>
                        Cardinality({n \in 1..Len(P) : P[n].sentence = k}) = 1)

\* C30 witness: two sentences filled a chunk to exactly POLLY_MAX_CHARS and
\* a third, 5901 characters long, was passed as three pieces.
C30_Witness ==
    /\ pc = "tts_done"
    /\ Len(text_to_synthesize) = 4
    /\ Len(text_to_synthesize[1]) = 2
    /\ ChunkLen(text_to_synthesize[1]) = 2950
    /\ sentences[3] = 5901
    /\ ChunkLen(text_to_synthesize[4]) = 1

====
